---- MODULE Spec2Model ----
(***************************************************************************)
(* Access and social-graph model of the flasky blog application            *)
(* (src/app/models.py and the routes of src/app/main/views.py).            *)
(*                                                                         *)
(* The relational store is modelled by its committed tables.  Every        *)
(* request (or test/shell script) works through its own SQLAlchemy         *)
(* session: model methods stage row changes in the session, and the        *)
(* commit (explicit, or at request teardown because of                     *)
(* SQLALCHEMY_COMMIT_ON_TEARDOWN) applies them to the tables under the     *)
(* declared primary-key and foreign-key constraints.                       *)
(***************************************************************************)
EXTENDS Integers, Sequences, FiniteSets, TLC

\* ---------------------------------------------------------------- bounds
\* User ids are 1..MaxUsers; an id is never handed out twice.
MaxUsers == 2
\* Post ids are 1..MaxPosts.
MaxPosts == 1
\* The clock runs from 0 to MaxTime seconds.
MaxTime == 2

\* ------------------------------------------------------------- constants
\* class Permission
FOLLOW == 1
COMMENT == 2
WRITE_ARTICLES == 4
MODERATE_COMMENTS == 8
ADMINISTER == 128
\* the mask of the 'Administrator' role, 0xff
AdminMask == 255
\* permissions are 8-bit masks
PermissionBits == 8

\* Python's None, for string-valued fields (email, role) and configuration
None == "None"
\* SQL NULL / "no user" for integer keys (author_id, the anonymous principal)
NoId == 0

RoleNames == {"User", "Moderator", "Administrator"}
Emails == {"john@example.com", "susan@example.org"}
UserIds == 1..MaxUsers
PostIds == 1..MaxPosts
\* the primary keys of the comments
CommentIds == {1}
\* the concurrent request workers, each with its own database session
Procs == {"p1", "p2"}
Masks == 0..(2^PermissionBits - 1)
\* the addresses an email change can ask for
NewEmails == Emails \cup {"david@example.net"}
Passwords == {"cat", "dog"}
\* the random salts of generate_password_hash
Salts == {"s1", "s2"}
\* password_hash of a user constructed without a password (NULL)
NoHash == [salt |-> None, digest |-> None]

VARIABLES
    config_admin,   \* current_app.config['FLASKY_ADMIN']
    roles,          \* table roles: name -> [permissions, default]
    users,          \* table users: id -> [email, role, confirmed, password_hash]
    next_id,        \* next primary key of table users
    follows,        \* table follows: <<follower_id, followed_id>> -> number of rows
    posts,          \* table posts: id -> [author_id, body, body_html]
    comments,       \* table comments: id -> [author_id, post_id, body, body_html, disabled]
    session,        \* per worker: the row changes staged in its session
    script,         \* position and registers of the follow/unfollow test script
    mail,           \* the token last mailed to a user (at most one in flight)
    now,            \* the clock, in seconds
    ret             \* the last call of a token method and what it returned

vars == <<config_admin, roles, users, next_id, follows, posts, comments, session,
          script, mail, now, ret>>

\* ------------------------------------------------------ bitwise helpers
RECURSIVE BitAnd(_, _)
BitAnd(x, y) ==
    IF x = 0 \/ y = 0 THEN 0
    ELSE (x % 2) * (y % 2) + 2 * BitAnd(x \div 2, y \div 2)

RECURSIVE BitOr(_, _)
BitOr(x, y) ==
    IF x = 0 THEN y
    ELSE IF y = 0 THEN x
    ELSE (IF x % 2 = 1 \/ y % 2 = 1 THEN 1 ELSE 0) + 2 * BitOr(x \div 2, y \div 2)

\* bit i of mask m
Bit(m, i) == (m \div (2^i)) % 2 = 1

\* ----------------------------------------------------------------- roles
\* a roles dictionary that gives the 'User' role the ADMINISTER bit
RolesDict_user_administer ==
    [r \in RoleNames |->
        CASE r = "User" ->
                [permissions |-> BitOr(BitOr(BitOr(FOLLOW, COMMENT), WRITE_ARTICLES),
                                       ADMINISTER),
                 default |-> TRUE]
          [] r = "Moderator" ->
                [permissions |-> BitOr(BitOr(BitOr(FOLLOW, COMMENT), WRITE_ARTICLES),
                                       MODERATE_COMMENTS),
                 default |-> FALSE]
          [] r = "Administrator" ->
                [permissions |-> AdminMask, default |-> FALSE]]

\* a roles dictionary that marks 'Moderator' as a default role too
RolesDict_two_defaults ==
    [r \in RoleNames |->
        CASE r = "User" ->
                [permissions |-> BitOr(BitOr(FOLLOW, COMMENT), WRITE_ARTICLES),
                 default |-> TRUE]
          [] r = "Moderator" ->
                [permissions |-> BitOr(BitOr(BitOr(FOLLOW, COMMENT), WRITE_ARTICLES),
                                       MODERATE_COMMENTS),
                 default |-> TRUE]
          [] r = "Administrator" ->
                [permissions |-> AdminMask, default |-> FALSE]]

\* the roles dictionary of Role.insert_roles
RolesDict ==
    [r \in RoleNames |->
        CASE r = "User" ->
                [permissions |-> BitOr(BitOr(FOLLOW, COMMENT), WRITE_ARTICLES),
                 default |-> TRUE]
          [] r = "Moderator" ->
                [permissions |-> BitOr(BitOr(BitOr(FOLLOW, COMMENT), WRITE_ARTICLES),
                                       MODERATE_COMMENTS),
                 default |-> FALSE]
          [] r = "Administrator" ->
                [permissions |-> AdminMask, default |-> FALSE]]

\* insert_roles that only creates the missing roles and leaves the rows it
\* finds as they are
insert_roles_create_only(t) ==
    [r \in (DOMAIN t) \cup RoleNames |->
        IF r \in DOMAIN t
        THEN t[r]
        ELSE [permissions |-> RolesDict[r].permissions,
              default |-> RolesDict[r].default]]

\* The roles table Role.insert_roles leaves when it finds the table t: every
\* named role is looked up by name (names are unique), created when missing,
\* and its mask and default flag are set from the dictionary; other rows are
\* not touched.
insert_roles_table(t) ==
    [r \in (DOMAIN t) \cup RoleNames |->
        IF r \in RoleNames
        THEN [permissions |-> RolesDict[r].permissions,
              default |-> RolesDict[r].default]
        ELSE t[r]]

\* Role.insert_roles: look every named role up, create it when missing, set
\* its mask and default flag, commit.
insert_roles ==
    /\ roles' = insert_roles_table(roles)
    /\ UNCHANGED <<config_admin, users, next_id, follows, posts, comments, session>>

\* Role.query.filter_by(permissions=m).first()
RoleWithPermissions(m) ==
    LET S == {r \in DOMAIN roles : roles[r].permissions = m}
    IN IF S = {} THEN None ELSE CHOOSE r \in S : TRUE

\* the number of rows of table roles with default = true
DefaultCount == Cardinality({r \in DOMAIN roles : roles[r].default})

\* Role.query.filter_by(default=True).first()
DefaultRole ==
    LET S == {r \in DOMAIN roles : roles[r].default}
    IN IF S = {} THEN None ELSE CHOOSE r \in S : TRUE

\* The role User.__init__ gives a user constructed without a role.
InitialRole(email) ==
    LET r == IF email = config_admin THEN RoleWithPermissions(AdminMask) ELSE None
    IN IF r = None THEN DefaultRole ELSE r

\* ----------------------------------------------------------- permissions
\* can with the mask compared for equality instead of inclusion
User_can_eq(u, permissions) ==
    /\ users[u].role # None
    /\ roles[users[u].role].permissions = permissions

\* User.can
User_can(u, permissions) ==
    /\ users[u].role # None
    /\ BitAnd(roles[users[u].role].permissions, permissions) = permissions

\* User.is_administrator
User_is_administrator(u) == User_can(u, ADMINISTER)

\* AnonymousUser.can
AnonymousUser_can(permissions) == FALSE

\* AnonymousUser.is_administrator
AnonymousUser_is_administrator == FALSE

\* current_user.can: current_user is the logged-in user or an AnonymousUser
can(cu, permissions) ==
    IF cu = NoId THEN AnonymousUser_can(permissions) ELSE User_can(cu, permissions)

\* current_user.is_administrator
is_administrator(cu) ==
    IF cu = NoId THEN AnonymousUser_is_administrator ELSE User_is_administrator(cu)

\* ---------------------------------------------------------- follow graph
Pairs == UserIds \X UserIds

\* the rows of table follows, as Follow objects
FollowRows ==
    {[follower_id |-> e[1], followed_id |-> e[2]] : e \in {x \in Pairs : follows[x] > 0}}

\* user.followed: the Follow rows whose follower_id is the user's id
User_followed(self) == {f \in FollowRows : f.follower_id = self}

\* user.followers: the Follow rows whose followed_id is the user's id
User_followers(self) == {f \in FollowRows : f.followed_id = self}

\* User.is_following: self.followed.filter_by(follower_id=user.id).first() is not None
User_is_following(self, user) ==
    \E f \in User_followed(self) : f.follower_id = user

\* User.is_followed_by: self.followers.filter_by(follower_id=user.id).first() is not None
User_is_followed_by(self, user) ==
    \E f \in User_followers(self) : f.follower_id = user

Staged(kind, a, b) == [kind |-> kind, follower_id |-> a, followed_id |-> b]

\* User.follow: db.session.add(Follow(follower=self, followed=user)) unless
\* is_following(user) answers true.
User_follow(p, self, user) ==
    IF ~User_is_following(self, user)
    THEN session' = [session EXCEPT ![p] = Append(@, Staged("insert", self, user))]
    ELSE UNCHANGED session

\* unfollow looking the row up among self.followers instead of self.followed
User_unfollow_followers(p, self, user) ==
    IF \E f \in User_followers(self) : f.follower_id = user
    THEN session' = [session EXCEPT ![p] = Append(@, Staged("delete", user, self))]
    ELSE UNCHANGED session

\* User.unfollow: f = self.followed.filter_by(followed_id=user.id).first();
\* db.session.delete(f) when there is one.
User_unfollow(p, self, user) ==
    IF \E f \in User_followed(self) : f.followed_id = user
    THEN session' = [session EXCEPT ![p] = Append(@, Staged("delete", self, user))]
    ELSE UNCHANGED session

\* User.followed_posts: Post joined with Follow on followed_id == author_id,
\* filtered by follower_id == self.id
User_followed_posts(self) ==
    {q \in DOMAIN posts :
        \E f \in FollowRows : /\ f.followed_id = posts[q].author_id
                              /\ f.follower_id = self}

\* ------------------------------------------------------- store and commit
EmptyFollows == [e \in Pairs |-> 0]

\* a follows table without its primary key
PrimaryKeyFree_none(tbl, a, b) == TRUE

\* follows has the primary key (follower_id, followed_id): an INSERT of a
\* pair the table already holds is rejected.
PrimaryKeyFree(tbl, a, b) == tbl[<<a, b>>] = 0

\* follower_id and followed_id are foreign keys to users.id
ForeignKeysHold(a, b) == a \in DOMAIN users /\ b \in DOMAIN users

\* db.session.commit() of worker p: the staged change is flushed in one
\* transaction; a constraint violation raises IntegrityError, nothing is
\* written and the session is rolled back.  A DELETE that matches no row
\* changes nothing.
\* (Every handler below starts from an empty session and stages at most one
\* change before its commit, as every caller in the repository does.)
Commit(p) ==
    /\ IF session[p] = <<>>
       THEN UNCHANGED follows
       ELSE LET op == Head(session[p])
                e == <<op.follower_id, op.followed_id>>
            IN IF op.kind = "insert"
               THEN IF /\ PrimaryKeyFree(follows, op.follower_id, op.followed_id)
                       /\ ForeignKeysHold(op.follower_id, op.followed_id)
                    THEN follows' = [follows EXCEPT ![e] = @ + 1]
                    ELSE UNCHANGED follows
               ELSE follows' = [follows EXCEPT ![e] = 0]
    /\ session' = [session EXCEPT ![p] = <<>>]
    /\ UNCHANGED <<config_admin, roles, users, next_id, posts, comments>>

\* ------------------------------------------------------------ operations
\* User(...); db.session.add(user); db.session.commit()
\* (auth.register, manage.py shell, the tests): User.__init__ picks the role
\* and appends the self-follow; users.email is unique and confirmed defaults
\* to False.
NewUser(email, password_hash) ==
    /\ next_id <= MaxUsers
    /\ email = None \/ \A u \in DOMAIN users : users[u].email # email
    /\ users' = [u \in (DOMAIN users) \cup {next_id} |->
                    IF u = next_id
                    THEN [email |-> email, role |-> InitialRole(email),
                          confirmed |-> FALSE, password_hash |-> password_hash]
                    ELSE users[u]]
    /\ follows' = [follows EXCEPT ![<<next_id, next_id>>] = @ + 1]
    /\ next_id' = next_id + 1
    /\ UNCHANGED <<config_admin, roles, posts, comments, session>>

\* User(email=...) constructed without a password: password_hash stays NULL.
CreateUser(email) == NewUser(email, NoHash)

\* the cascade of a user's deletion over the follows table: both
\* relationships, followed and followers, are cascade='all, delete-orphan'
\* the cascade with only the followed relationship configured
CascadeFollowedOnly(u) ==
    [e \in Pairs |-> IF e[1] = u THEN 0 ELSE follows[e]]

CascadeFollows(u) ==
    [e \in Pairs |-> IF e[1] = u \/ e[2] = u THEN 0 ELSE follows[e]]

\* db.session.delete(u); db.session.commit(): the Follow rows of both
\* relationships are deleted with the user; User.posts and User.comments have
\* no delete cascade, so the author_id of the user's posts and comments is set
\* to NULL.
DeleteUser(u) ==
    /\ u \in DOMAIN users
    /\ users' = [v \in (DOMAIN users) \ {u} |-> users[v]]
    /\ follows' = CascadeFollows(u)
    /\ posts' = [q \in DOMAIN posts |->
                    IF posts[q].author_id = u
                    THEN [posts[q] EXCEPT !.author_id = NoId] ELSE posts[q]]
    /\ comments' = [c \in DOMAIN comments |->
                    IF comments[c].author_id = u
                    THEN [comments[c] EXCEPT !.author_id = NoId] ELSE comments[c]]
    /\ UNCHANGED <<config_admin, roles, next_id, session>>

\* u1.follow(u2); db.session.add(u1)  -- the model method, called on
\* persisted users from a test or the shell; the commit follows.
FollowMethod(p, a, b) ==
    /\ session[p] = <<>>
    /\ a \in DOMAIN users /\ b \in DOMAIN users
    /\ User_follow(p, a, b)
    /\ UNCHANGED <<config_admin, roles, users, next_id, follows, posts, comments>>

\* u1.unfollow(u2); db.session.add(u1)
UnfollowMethod(p, a, b) ==
    /\ session[p] = <<>>
    /\ a \in DOMAIN users /\ b \in DOMAIN users
    /\ User_unfollow(p, a, b)
    /\ UNCHANGED <<config_admin, roles, users, next_id, follows, posts, comments>>

\* ------------------------------------------------------- rendered markup
\* the texts submitted as the body of a post or of a comment
Bodies == {"hello", "# title", "**bold** <script>alert(1)</script> http://x.com"}
\* the texts that bleach.linkify recognises as an address
Urls == {"http://x.com"}

\* HTML is a sequence of tokens: opening tags, closing tags and text
Open(name) == [tag |-> name, close |-> FALSE]
Close(name) == [tag |-> name, close |-> TRUE]
Text(t) == [text |-> t]

\* markdown(value, output_format='html'): Markdown markup becomes elements,
\* raw HTML in the text is passed through
markdown(value) ==
    CASE value = "hello" -> <<Open("p"), Text("hello"), Close("p")>>
      [] value = "# title" -> <<Open("h1"), Text("title"), Close("h1")>>
      [] value = "**bold** <script>alert(1)</script> http://x.com" ->
            <<Open("p"), Open("strong"), Text("bold"), Close("strong"), Text(" "),
              Open("script"), Text("alert(1)"), Close("script"), Text(" "),
              Text("http://x.com"), Close("p")>>

\* bleach.clean(html, tags=tags, strip=True): the tags outside the allow-list
\* are removed, their content stays
bleach_clean(html, tags) ==
    LET kept(t) == "tag" \in DOMAIN t => t.tag \in tags
    IN SelectSeq(html, kept)

\* bleach.linkify(html): an address in the text is wrapped in an anchor
RECURSIVE bleach_linkify(_)
bleach_linkify(html) ==
    IF html = <<>> THEN <<>>
    ELSE LET t == Head(html)
         IN (IF "text" \in DOMAIN t /\ t.text \in Urls
             THEN <<Open("a"), t, Close("a")>>
             ELSE <<t>>) \o bleach_linkify(Tail(html))

\* allowed_tags of Post.on_changed_body
Post_allowed_tags ==
    {"a", "abbr", "acronym", "b", "blockquote", "code", "em", "i", "li", "ol",
     "pre", "strong", "ul", "h1", "h2", "h3", "p"}

\* allowed_tags of Comment.on_changed_body
Comment_allowed_tags == {"a", "abbr", "acronym", "b", "code", "em", "i", "strong"}

\* Post.on_changed_body: the value of target.body_html
Post_on_changed_body(value) ==
    bleach_linkify(bleach_clean(markdown(value), Post_allowed_tags))

\* Comment.on_changed_body: the value of target.body_html
Comment_on_changed_body(value) ==
    bleach_linkify(bleach_clean(markdown(value), Comment_allowed_tags))

\* an assignment to body that no listener hears
Post_set_body_unheard(row, value) == [row EXCEPT !.body = value]

\* post.body = value: db.event.listen(Post.body, 'set', Post.on_changed_body)
\* runs the listener on the assignment
Post_set_body(row, value) ==
    [row EXCEPT !.body = value, !.body_html = Post_on_changed_body(value)]

\* Post(body=body, author=author): the constructor assigns body
Post_init(body, author) ==
    [author_id |-> author, body |-> body, body_html |-> Post_on_changed_body(body)]

\* Comment(body=body, post=post, author=author); disabled has no default
Comment_init(body, post, author) ==
    [author_id |-> author, post_id |-> post, body |-> body,
     body_html |-> Comment_on_changed_body(body), disabled |-> None]

\* db.session.add(row) and the commit: the row gets the next primary key
Insert(table, row) ==
    LET k == Cardinality(DOMAIN table) + 1
    IN [x \in (DOMAIN table) \cup {k} |-> IF x = k THEN row ELSE table[x]]

\* ---------------------------------------------------------------- routes
\* User.add_self_follows (manage.py deploy): for every user that
\* is_following(user) does not report as following itself, user.follow(user)
\* and the commit.
add_self_follows ==
    /\ follows' = [e \in Pairs |->
                     IF /\ e[1] = e[2]
                        /\ e[1] \in DOMAIN users
                        /\ ~User_is_following(e[1], e[1])
                        /\ PrimaryKeyFree(follows, e[1], e[2])
                     THEN follows[e] + 1 ELSE follows[e]]
    /\ UNCHANGED <<config_admin, roles, users, next_id, posts, comments, session>>

\* The route /follow/<username>, requested by current_user cu (NoId: nobody
\* is logged in).  Usernames are modelled by the ids of the users that hold
\* them.  login_required runs first, then permission_required(FOLLOW).
follow(p, cu, username) ==
    /\ session[p] = <<>>
    /\ cu \in (DOMAIN users) \cup {NoId}
    /\ username \in UserIds
    /\ \/ /\ cu = NoId
          /\ UNCHANGED session
       \/ /\ cu # NoId
          /\ ~can(cu, FOLLOW)
          /\ UNCHANGED session
       \/ /\ cu # NoId
          /\ can(cu, FOLLOW)
          /\ \/ username \notin DOMAIN users
             \/ username \in DOMAIN users /\ User_is_following(cu, username)
          /\ UNCHANGED session
       \/ /\ cu # NoId
          /\ can(cu, FOLLOW)
          /\ username \in DOMAIN users
          /\ ~User_is_following(cu, username)
          /\ User_follow(p, cu, username)
    /\ UNCHANGED <<config_admin, roles, users, next_id, follows, posts, comments>>

\* The route /unfollow/<username>.
unfollow(p, cu, username) ==
    /\ session[p] = <<>>
    /\ cu \in (DOMAIN users) \cup {NoId}
    /\ username \in UserIds
    /\ \/ /\ cu = NoId
          /\ UNCHANGED session
       \/ /\ cu # NoId
          /\ ~can(cu, FOLLOW)
          /\ UNCHANGED session
       \/ /\ cu # NoId
          /\ can(cu, FOLLOW)
          /\ \/ username \notin DOMAIN users
             \/ username \in DOMAIN users /\ ~User_is_following(cu, username)
          /\ UNCHANGED session
       \/ /\ cu # NoId
          /\ can(cu, FOLLOW)
          /\ username \in DOMAIN users
          /\ User_is_following(cu, username)
          /\ User_unfollow(p, cu, username)
    /\ UNCHANGED <<config_admin, roles, users, next_id, follows, posts, comments>>

\* The route / (index) with a submitted PostForm (body None: the form does
\* not validate): a post by current_user is stored when
\* current_user.can(WRITE_ARTICLES) and the form validates; the page is
\* rendered otherwise.
index(cu, body) ==
    /\ cu \in (DOMAIN users) \cup {NoId}
    /\ \/ /\ can(cu, WRITE_ARTICLES)
          /\ body # None
          /\ Cardinality(DOMAIN posts) < MaxPosts
          /\ posts' = Insert(posts, Post_init(body, cu))
       \/ /\ ~(can(cu, WRITE_ARTICLES) /\ body # None)
          /\ UNCHANGED posts
    /\ UNCHANGED <<config_admin, roles, users, next_id, follows, comments, session>>

\* The route /edit-profile/<id> with a valid EditProfileAdminForm, requested
\* by current_user cu: login_required, admin_required, get_or_404(id); the
\* form accepts an email that is the user's own or held by nobody, a role
\* among the rows of the roles table, and the confirmed flag.
edit_profile_admin(cu, id, email, role, confirmed) ==
    /\ cu \in (DOMAIN users) \cup {NoId}
    /\ id \in UserIds
    /\ \/ /\ cu = NoId
          /\ UNCHANGED users
       \/ /\ cu # NoId
          /\ ~can(cu, ADMINISTER)
          /\ UNCHANGED users
       \/ /\ cu # NoId
          /\ can(cu, ADMINISTER)
          /\ id \in DOMAIN users
          /\ email \in NewEmails
          /\ role \in DOMAIN roles
          /\ email = users[id].email \/ \A u \in DOMAIN users : users[u].email # email
          /\ confirmed \in BOOLEAN
          /\ users' = [users EXCEPT ![id] = [@ EXCEPT !.email = email,
                                                      !.role = role,
                                                      !.confirmed = confirmed]]
    /\ UNCHANGED <<config_admin, roles, next_id, follows, posts, comments, session>>

\* ------------------------------------------------------ request handling
\* what a view answers: the status of the response and the table it wrote
Response(status, table) == [status |-> status, table |-> table]

\* a before_request that lets every request through
before_request_open(cu) == None

\* auth.before_request, registered with before_app_request, for a request to
\* an endpoint outside the auth blueprint other than 'static': the redirect to
\* auth.unconfirmed that answers the request, or None
before_request(cu) ==
    IF cu # NoId /\ ~users[cu].confirmed THEN "unconfirmed" ELSE None

\* the request as before_request and then the view answer it
Web(cu, r, table) ==
    IF before_request(cu) # None THEN Response(before_request(cu), table) ELSE r

\* login_required of Flask-Login: the redirect to login_view, or None
login_required(cu) == IF cu = NoId THEN "login" ELSE None

\* a permission_required that lets every principal through
permission_required_open(cu, permission) == None

\* decorators.permission_required: abort(403), or None
permission_required(cu, permission) ==
    IF can(cu, permission) THEN None ELSE "403"

\* decorators.admin_required
admin_required(cu) == permission_required(cu, ADMINISTER)

\* the answer of login_required followed by permission_required
decorated(cu, permission) ==
    IF login_required(cu) # None THEN login_required(cu)
    ELSE permission_required(cu, permission)

\* the edit route with the test of the author left out
edit_unguarded(cu, id, body) ==
    IF login_required(cu) # None THEN Response(login_required(cu), posts)
    ELSE IF id \notin DOMAIN posts THEN Response("404", posts)
    ELSE IF body = None THEN Response("200", posts)
    ELSE Response("302", [posts EXCEPT ![id] = Post_set_body(@, body)])

\* The route /edit/<id> with a submitted PostForm (body None: the form does
\* not validate), then the commit.
edit(cu, id, body) ==
    IF login_required(cu) # None THEN Response(login_required(cu), posts)
    ELSE IF id \notin DOMAIN posts THEN Response("404", posts)
    ELSE IF cu # posts[id].author_id /\ ~can(cu, ADMINISTER)
    THEN Response("403", posts)
    ELSE IF body = None THEN Response("200", posts)
    ELSE Response("302", [posts EXCEPT ![id] = Post_set_body(@, body)])

\* The route /post/<id> with a submitted CommentForm, then the commit; the
\* route has no decorator, and an AnonymousUser is no row that a comment can
\* have as its author: the constructor raises.
post(cu, id, body) ==
    IF id \notin DOMAIN posts THEN Response("404", comments)
    ELSE IF body = None THEN Response("200", comments)
    ELSE IF cu = NoId THEN Response("500", comments)
    ELSE Response("302", Insert(comments, Comment_init(body, id, cu)))

\* comment.disable = False: Comment has no column 'disable', the assignment
\* makes a plain attribute of the object and the row stays as it was
Comment_set_disable(row, value) == row

\* comment.disabled = value
Comment_set_disabled(row, value) == [row EXCEPT !.disabled = value]

\* The route /moderate/enable/<id>, then the commit.
moderate_enable(cu, id) ==
    IF decorated(cu, MODERATE_COMMENTS) # None
    THEN Response(decorated(cu, MODERATE_COMMENTS), comments)
    ELSE IF id \notin DOMAIN comments THEN Response("404", comments)
    ELSE Response("302", [comments EXCEPT ![id] = Comment_set_disable(@, "False")])

\* The route /moderate/disable/<id>, then the commit.
moderate_disable(cu, id) ==
    IF decorated(cu, MODERATE_COMMENTS) # None
    THEN Response(decorated(cu, MODERATE_COMMENTS), comments)
    ELSE IF id \notin DOMAIN comments THEN Response("404", comments)
    ELSE Response("302", [comments EXCEPT ![id] = Comment_set_disabled(@, "True")])

\* api before_request, after auth.login_required has authenticated
\* g.current_user (NoId: the anonymous client): forbidden('Unconfirmed
\* account'), or None
api_before_request(cu) ==
    IF cu # NoId /\ ~users[cu].confirmed THEN "403" ELSE None

\* the API request as before_request and then the view answer it
Api(cu, r, table) ==
    IF api_before_request(cu) # None THEN Response(api_before_request(cu), table)
    ELSE r

\* permission_required of the api blueprint: forbidden('Insufficient
\* permissions'), or None
api_permission_required(cu, permission) ==
    IF can(cu, permission) THEN None ELSE "403"

\* POST /api/v1.0/posts/ with the JSON {'body': body} (None: no body in the
\* JSON): Post.from_json raises ValidationError, a 400, without a body.
new_post(cu, body) ==
    IF api_permission_required(cu, WRITE_ARTICLES) # None
    THEN Response(api_permission_required(cu, WRITE_ARTICLES), posts)
    ELSE IF body = None THEN Response("400", posts)
    ELSE Response("201", Insert(posts, Post_init(body, cu)))

\* the PUT with the test of the author left out
edit_post_unguarded(cu, id, body) ==
    IF api_permission_required(cu, WRITE_ARTICLES) # None
    THEN Response(api_permission_required(cu, WRITE_ARTICLES), posts)
    ELSE IF id \notin DOMAIN posts THEN Response("404", posts)
    ELSE Response("200", [posts EXCEPT ![id] =
                            Post_set_body(@, IF body = None THEN @.body ELSE body)])

\* PUT /api/v1.0/posts/<id> with the JSON {'body': body} (None: no body in
\* the JSON, post.body is assigned to itself), then the commit.
edit_post(cu, id, body) ==
    IF api_permission_required(cu, WRITE_ARTICLES) # None
    THEN Response(api_permission_required(cu, WRITE_ARTICLES), posts)
    ELSE IF id \notin DOMAIN posts THEN Response("404", posts)
    ELSE IF cu # posts[id].author_id /\ ~can(cu, ADMINISTER)
    THEN Response("403", posts)
    ELSE Response("200", [posts EXCEPT ![id] =
                            Post_set_body(@, IF body = None THEN @.body ELSE body)])

\* ------------------------------------------------------ passwords, tokens
\* generate_password_hash(password): a salted one-way hash; the digest is
\* modelled by the password it was computed from and is only ever used by
\* check_password_hash.
generate_password_hash(password, salt) == [salt |-> salt, digest |-> password]

\* check_password_hash(pwhash, password)
check_password_hash(pwhash, password) ==
    pwhash = generate_password_hash(password, pwhash.salt)

\* User.verify_password
User_verify_password(self, password) ==
    check_password_hash(users[self].password_hash, password)

\* the getter of User.password: the attribute cannot be read
User_password_get(self) == "AttributeError"

\* a setter that keeps the hash the user already has
User_password_set_once(self, password, salt) ==
    IF users[self].password_hash = NoHash
    THEN [users EXCEPT ![self].password_hash = generate_password_hash(password, salt)]
    ELSE users

\* the setter of User.password: the users table after
\* self.password = password
User_password_set(self, password, salt) ==
    [users EXCEPT ![self].password_hash = generate_password_hash(password, salt)]

\* expiration=3600, the default of the generate_*_token methods
DefaultExpiration == 3600
\* the expiry test_expired_confirmation_token asks for
ShortExpiration == 1
Expirations == {ShortExpiration, DefaultExpiration}

\* Serializer(SECRET_KEY, expiration).dumps(data): a JSON Web Signature whose
\* header carries exp = now + expiration; the signature covers header and
\* payload and cannot be made without the secret key, so it is modelled by
\* the content it was computed over.
Serializer_dumps(data, expiration) ==
    [data |-> data,
     exp |-> now + expiration,
     sig |-> [data |-> data, exp |-> now + expiration]]

\* Serializer(SECRET_KEY).loads(token): raises BadSignature when the
\* signature does not match header and payload, SignatureExpired when
\* exp < now, and returns the payload otherwise.
Serializer_loads(token) ==
    IF token.sig # [data |-> token.data, exp |-> token.exp]
    THEN [exc |-> "BadSignature", data |-> token.data]
    ELSE IF token.exp < now
    THEN [exc |-> "SignatureExpired", data |-> token.data]
    ELSE [exc |-> None, data |-> token.data]

\* data.get(key) for the keys that hold a user id: None (NoId) when the dict
\* has no such key
dict_get(data, key) == IF key \in DOMAIN data THEN data[key] ELSE NoId

\* data.get('new_email')
dict_get_new_email(data) ==
    IF "new_email" \in DOMAIN data THEN data["new_email"] ELSE None

\* generate_confirmation_token signing the key 'confirmed'
User_generate_confirmation_token_key(self, expiration) ==
    Serializer_dumps([confirmed |-> self], expiration)

\* User.generate_confirmation_token
User_generate_confirmation_token(self, expiration) ==
    Serializer_dumps([confirm |-> self], expiration)

\* User.generate_reset_token
User_generate_reset_token(self, expiration) ==
    Serializer_dumps([rest |-> self], expiration)

\* User.generate_email_change_token
User_generate_email_change_token(self, new_email, expiration) ==
    Serializer_dumps([change_email |-> self, new_email |-> new_email], expiration)

\* what a token method hands back: its return value ("raise" when an
\* exception leaves it) and the users table with the change it staged
Result(value, table) == [value |-> value, users |-> table]

\* confirm that catches BadSignature only, so that SignatureExpired escapes
User_confirm_badsig(self, token) ==
    LET r == Serializer_loads(token)
    IN IF r.exc = "SignatureExpired"
       THEN Result("raise", users)
       ELSE IF r.exc # None \/ dict_get(r.data, "confirm") # self
       THEN Result("False", users)
       ELSE Result("True", [users EXCEPT ![self].confirmed = TRUE])

\* confirm that sets the flag as soon as the token loads, before it
\* compares the id
User_confirm_early(self, token) ==
    LET r == Serializer_loads(token)
    IN IF r.exc # None
       THEN Result("False", users)
       ELSE Result(IF dict_get(r.data, "confirm") # self THEN "False" ELSE "True",
                   [users EXCEPT ![self].confirmed = TRUE])

\* User.confirm: False when loads raises (the bare except) or the payload's
\* 'confirm' is not self.id; otherwise confirmed = True and True.
User_confirm(self, token) ==
    LET r == Serializer_loads(token)
    IN IF r.exc # None
       THEN Result("False", users)
       ELSE IF dict_get(r.data, "confirm") # self
       THEN Result("False", users)
       ELSE Result("True", [users EXCEPT ![self].confirmed = TRUE])

\* User.reset_password: False when loads raises or the payload's 'reset' is
\* not self.id; otherwise the password is set and True.
User_reset_password(self, token, new_password, salt) ==
    LET r == Serializer_loads(token)
    IN IF r.exc # None
       THEN Result("False", users)
       ELSE IF dict_get(r.data, "reset") # self
       THEN Result("False", users)
       ELSE Result("True",
                   [users EXCEPT ![self].password_hash =
                                     generate_password_hash(new_password, salt)])

\* change_email without the query for a holder of the new address
User_change_email_unchecked(self, token) ==
    LET r == Serializer_loads(token)
        new_email == dict_get_new_email(r.data)
    IN IF r.exc # None
       THEN Result("False", users)
       ELSE IF dict_get(r.data, "change_email") # self \/ new_email = None
       THEN Result("False", users)
       ELSE Result("True", [users EXCEPT ![self].email = new_email])

\* change_email that stores the new address under a misspelt attribute
User_change_email_attr(self, token) ==
    LET r == Serializer_loads(token)
        new_email == dict_get_new_email(r.data)
    IN IF r.exc # None
       THEN Result("False", users)
       ELSE IF dict_get(r.data, "change_email") # self \/ new_email = None
       THEN Result("False", users)
       ELSE IF \E u \in DOMAIN users : users[u].email = new_email
       THEN Result("False", users)
       ELSE Result("True", users)

\* User.change_email: False when loads raises, the payload's 'change_email'
\* is not self.id, it has no 'new_email', or some user holds the new address;
\* otherwise email = new_email and True (the avatar hash is stored under the
\* attribute avatar_has, which is no column).
User_change_email(self, token) ==
    LET r == Serializer_loads(token)
        new_email == dict_get_new_email(r.data)
    IN IF r.exc # None
       THEN Result("False", users)
       ELSE IF dict_get(r.data, "change_email") # self
       THEN Result("False", users)
       ELSE IF new_email = None
       THEN Result("False", users)
       ELSE IF \E u \in DOMAIN users : users[u].email = new_email
       THEN Result("False", users)
       ELSE Result("True", [users EXCEPT ![self].email = new_email])

\* every payload the token methods sign
Payloads ==
    {[confirm |-> u] : u \in UserIds}
        \cup {[rest |-> u] : u \in UserIds}
        \cup {[change_email |-> u, new_email |-> e] : u \in UserIds, e \in NewEmails}
        \cup {[id |-> u] : u \in UserIds}

\* what somebody without the secret key can make of the mailed token: other
\* values in the payload, or a later expiry, under the signature of the
\* original
Forged ==
    UNION {{[data |-> d, exp |-> t.exp, sig |-> t.sig] :
                d \in {x \in Payloads : DOMAIN x = DOMAIN t.data}}
              \cup {[data |-> t.data, exp |-> t.exp + DefaultExpiration, sig |-> t.sig]} :
           t \in mail} \ mail

\* the tokens a request or a test can present
Presented == mail \cup Forged

\* ------------------------------------ the follow/unfollow script of the tests
\* test_follows: u1.follow(u2); commit; ...; u1.unfollow(u2); commit, run by
\* worker "p1" with nothing else in between.  script.before is the follows
\* table as it was when the script started.
\* no token method has been called yet
RetNone == [op |-> "none", value |-> "None"]

ScriptIdle == [pc |-> "idle", a |-> NoId, b |-> NoId, before |-> EmptyFollows]

test_follows_follow(a, b) ==
    /\ script.pc = "idle"
    /\ FollowMethod("p1", a, b)
    /\ script' = [pc |-> "follow", a |-> a, b |-> b, before |-> follows]
    /\ UNCHANGED <<mail, now, ret>>

test_follows_commit_follow ==
    /\ script.pc = "follow"
    /\ Commit("p1")
    /\ script' = [script EXCEPT !.pc = "followed"]
    /\ UNCHANGED <<mail, now, ret>>

test_follows_unfollow ==
    /\ script.pc = "followed"
    /\ UnfollowMethod("p1", script.a, script.b)
    /\ script' = [script EXCEPT !.pc = "unfollow"]
    /\ UNCHANGED <<mail, now, ret>>

test_follows_commit_unfollow ==
    /\ script.pc = "unfollow"
    /\ Commit("p1")
    /\ script' = [script EXCEPT !.pc = "done"]
    /\ UNCHANGED <<mail, now, ret>>

\* -------------------------------------------------------- specifications
\* After db.create_all(): every table is empty.
InitTables ==
    /\ users = [u \in {} |-> 0]
    /\ next_id = 1
    /\ follows = EmptyFollows
    /\ posts = [q \in {} |-> 0]
    /\ comments = [c \in {} |-> 0]
    /\ session = [p \in Procs |-> <<>>]
    /\ script = ScriptIdle
    /\ mail = {}
    /\ now = 0
    /\ ret = RetNone

\* The deployed application (manage.py deploy has inserted the roles);
\* FLASK_ADMIN is not set in the environment.
Init ==
    /\ config_admin = None
    /\ roles = RolesDict
    /\ InitTables

\* A fresh database, FLASK_ADMIN not set.
InitFresh ==
    /\ config_admin = None
    /\ roles = [r \in {} |-> 0]
    /\ InitTables

\* A fresh database under any configuration of the administrator address.
InitPerm ==
    /\ config_admin \in Emails \cup {None}
    /\ roles = [r \in {} |-> 0]
    /\ InitTables

Deploy == insert_roles /\ UNCHANGED <<script, mail, now, ret>>

Construct(email) == CreateUser(email) /\ UNCHANGED <<script, mail, now, ret>>

Delete(u) == DeleteUser(u) /\ UNCHANGED <<script, mail, now, ret>>

CallFollow(p, a, b) == FollowMethod(p, a, b) /\ UNCHANGED <<script, mail, now, ret>>

CallUnfollow(p, a, b) == UnfollowMethod(p, a, b) /\ UNCHANGED <<script, mail, now, ret>>

RouteFollow(p, cu, username) == follow(p, cu, username) /\ UNCHANGED <<script, mail, now, ret>>

RouteUnfollow(p, cu, username) == unfollow(p, cu, username) /\ UNCHANGED <<script, mail, now, ret>>

RouteIndex(cu) == index(cu, "hello") /\ UNCHANGED <<script, mail, now, ret>>

RouteEditProfileAdmin(cu, id, email, role, confirmed) ==
    edit_profile_admin(cu, id, email, role, confirmed)
    /\ UNCHANGED <<script, mail, now, ret>>

Teardown(p) == session[p] # <<>> /\ Commit(p) /\ UNCHANGED <<script, mail, now, ret>>

AddSelfFollows == add_self_follows /\ UNCHANGED <<script, mail, now, ret>>

\* auth.register and the tests: User(email=..., password=...), added and
\* committed
Register(email, password, salt) ==
    /\ NewUser(email, generate_password_hash(password, salt))
    /\ UNCHANGED <<script, mail, now, ret>>

\* The requests of the blog, each with its commit and with the response in
\* ret.  A web request passes auth.before_request first, a request of the API
\* the before_request of the api blueprint; cu is current_user, and for the
\* API the g.current_user that auth.login_required has authenticated.
WebIndex(cu, body) ==
    /\ cu \in (DOMAIN users) \cup {NoId}
    /\ \/ /\ before_request(cu) # None
          /\ ret' = [op |-> "index", value |-> before_request(cu)]
          /\ UNCHANGED <<config_admin, roles, users, next_id, follows, posts,
                         comments, session>>
       \/ /\ before_request(cu) = None
          /\ index(cu, body)
          /\ ret' = [op |-> "index",
                     value |-> IF can(cu, WRITE_ARTICLES) /\ body # None
                               THEN "302" ELSE "200"]
    /\ UNCHANGED <<script, mail, now>>

WebFollow(p, cu, username) ==
    /\ cu \in (DOMAIN users) \cup {NoId}
    /\ \/ /\ before_request(cu) # None
          /\ ret' = [op |-> "follow", value |-> before_request(cu)]
          /\ UNCHANGED <<config_admin, roles, users, next_id, follows, posts,
                         comments, session>>
       \/ /\ before_request(cu) = None
          /\ follow(p, cu, username)
          /\ ret' = [op |-> "follow",
                     value |-> IF decorated(cu, FOLLOW) # None
                               THEN decorated(cu, FOLLOW) ELSE "302"]
    /\ UNCHANGED <<script, mail, now>>

WebUnfollow(p, cu, username) ==
    /\ cu \in (DOMAIN users) \cup {NoId}
    /\ \/ /\ before_request(cu) # None
          /\ ret' = [op |-> "unfollow", value |-> before_request(cu)]
          /\ UNCHANGED <<config_admin, roles, users, next_id, follows, posts,
                         comments, session>>
       \/ /\ before_request(cu) = None
          /\ unfollow(p, cu, username)
          /\ ret' = [op |-> "unfollow",
                     value |-> IF decorated(cu, FOLLOW) # None
                               THEN decorated(cu, FOLLOW) ELSE "302"]
    /\ UNCHANGED <<script, mail, now>>

WebEditProfileAdmin(cu, id, email, role, confirmed) ==
    /\ cu \in (DOMAIN users) \cup {NoId}
    /\ \/ /\ before_request(cu) # None
          /\ ret' = [op |-> "edit_profile_admin", value |-> before_request(cu)]
          /\ UNCHANGED <<config_admin, roles, users, next_id, follows, posts,
                         comments, session>>
       \/ /\ before_request(cu) = None
          /\ edit_profile_admin(cu, id, email, role, confirmed)
          /\ ret' = [op |-> "edit_profile_admin",
                     value |-> IF login_required(cu) # None THEN login_required(cu)
                               ELSE IF admin_required(cu) # None
                               THEN admin_required(cu) ELSE "302"]
    /\ UNCHANGED <<script, mail, now>>

WebEdit(cu, id, body) ==
    /\ cu \in (DOMAIN users) \cup {NoId}
    /\ LET r == Web(cu, edit(cu, id, body), posts)
       IN /\ posts' = r.table
          /\ ret' = [op |-> "edit", value |-> r.status]
    /\ UNCHANGED <<config_admin, roles, users, next_id, follows, comments, session,
                   script, mail, now>>

WebPost(cu, id, body) ==
    /\ cu \in (DOMAIN users) \cup {NoId}
    /\ LET r == Web(cu, post(cu, id, body), comments)
       IN /\ DOMAIN r.table \subseteq CommentIds
          /\ comments' = r.table
          /\ ret' = [op |-> "post", value |-> r.status]
    /\ UNCHANGED <<config_admin, roles, users, next_id, follows, posts, session,
                   script, mail, now>>

WebModerateEnable(cu, id) ==
    /\ cu \in (DOMAIN users) \cup {NoId}
    /\ LET r == Web(cu, moderate_enable(cu, id), comments)
       IN /\ comments' = r.table
          /\ ret' = [op |-> "moderate_enable", value |-> r.status]
    /\ UNCHANGED <<config_admin, roles, users, next_id, follows, posts, session,
                   script, mail, now>>

WebModerateDisable(cu, id) ==
    /\ cu \in (DOMAIN users) \cup {NoId}
    /\ LET r == Web(cu, moderate_disable(cu, id), comments)
       IN /\ comments' = r.table
          /\ ret' = [op |-> "moderate_disable", value |-> r.status]
    /\ UNCHANGED <<config_admin, roles, users, next_id, follows, posts, session,
                   script, mail, now>>

ApiNewPost(cu, body) ==
    /\ cu \in (DOMAIN users) \cup {NoId}
    /\ LET r == Api(cu, new_post(cu, body), posts)
       IN /\ DOMAIN r.table \subseteq PostIds
          /\ posts' = r.table
          /\ ret' = [op |-> "new_post", value |-> r.status]
    /\ UNCHANGED <<config_admin, roles, users, next_id, follows, comments, session,
                   script, mail, now>>

ApiEditPost(cu, id, body) ==
    /\ cu \in (DOMAIN users) \cup {NoId}
    /\ LET r == Api(cu, edit_post(cu, id, body), posts)
       IN /\ posts' = r.table
          /\ ret' = [op |-> "edit_post", value |-> r.status]
    /\ UNCHANGED <<config_admin, roles, users, next_id, follows, comments, session,
                   script, mail, now>>

\* reading user.password, as test_no_password_getter does
ReadPassword(u) ==
    /\ u \in DOMAIN users
    /\ ret' = [op |-> "password", value |-> User_password_get(u)]
    /\ UNCHANGED <<config_admin, roles, users, next_id, follows, posts, comments,
                   session, script, mail, now>>

\* The route /auth/change-password with a valid ChangePasswordForm, then the
\* commit: login_required; the new password is assigned when the old one
\* verifies, and the form is shown again when it does not.
ChangePassword(cu, old_password, password, salt) ==
    /\ cu \in (DOMAIN users) \cup {NoId}
    /\ \/ /\ cu = NoId
          /\ ret' = [op |-> "change_password", value |-> "login"]
          /\ UNCHANGED users
       \/ /\ cu # NoId
          /\ User_verify_password(cu, old_password)
          /\ users' = User_password_set(cu, password, salt)
          /\ ret' = [op |-> "change_password", value |-> "302"]
       \/ /\ cu # NoId
          /\ ~User_verify_password(cu, old_password)
          /\ ret' = [op |-> "change_password", value |-> "200"]
          /\ UNCHANGED users
    /\ UNCHANGED <<config_admin, roles, next_id, follows, posts, comments,
                   session, script, mail, now>>

\* User.generate_auth_token: s.dumps({'id': self.id})
User_generate_auth_token(self, expiration) ==
    Serializer_dumps([id |-> self], expiration)

\* User.verify_auth_token: loads inside the try, any exception of it gives
\* None; data['id'] is read after the try, so a payload without the key raises
\* KeyError to the caller; User.query.get gives None (NoId) for an id that
\* names no row
User_verify_auth_token(token) ==
    IF Serializer_loads(token).exc # None
    THEN [exc |-> None, user |-> NoId]
    ELSE IF "id" \notin DOMAIN Serializer_loads(token).data
    THEN [exc |-> "KeyError", user |-> NoId]
    ELSE IF Serializer_loads(token).data.id \in DOMAIN users
    THEN [exc |-> None, user |-> Serializer_loads(token).data.id]
    ELSE [exc |-> None, user |-> NoId]

\* verify_password(email_or_token, '') of the API, then auth.login_required
\* and before_request: an exception of the callback is an unhandled fault
\* (500), False is answered by auth_error (401), an unconfirmed user by 403;
\* otherwise the view runs
api_verify_password(token) ==
    IF User_verify_auth_token(token).exc # None THEN "500"
    ELSE IF User_verify_auth_token(token).user = NoId THEN "401"
    ELSE IF api_before_request(User_verify_auth_token(token).user) # None
    THEN api_before_request(User_verify_auth_token(token).user)
    ELSE "view"

\* token = user.generate_auth_token(expiration), handed to the client
IssueAuthToken(u, expiration) ==
    /\ u \in DOMAIN users
    /\ mail' = {User_generate_auth_token(u, expiration)}
    /\ UNCHANGED <<config_admin, roles, users, next_id, follows, posts, comments, session,
                   script, now, ret>>

\* an API request that presents the token as the user name of HTTP basic
\* auth, with the empty password
ApiTokenRequest(token) ==
    /\ token \in Presented
    /\ ret' = [op |-> "api_token", value |-> api_verify_password(token)]
    /\ UNCHANGED <<config_admin, roles, users, next_id, follows, posts, comments, session,
                   script, mail, now>>

\* a second passes
Tick ==
    /\ now < MaxTime
    /\ now' = now + 1
    /\ UNCHANGED <<config_admin, roles, users, next_id, follows, posts, comments, session,
                   script, mail, ret>>

\* token = user.generate_confirmation_token(); send_email(...)
SendConfirmation(u, expiration) ==
    /\ u \in DOMAIN users
    /\ mail' = {User_generate_confirmation_token(u, expiration)}
    /\ UNCHANGED <<config_admin, roles, users, next_id, follows, posts, comments, session,
                   script, now, ret>>

\* token = user.generate_reset_token(); send_email(...)
SendReset(u, expiration) ==
    /\ u \in DOMAIN users
    /\ mail' = {User_generate_reset_token(u, expiration)}
    /\ UNCHANGED <<config_admin, roles, users, next_id, follows, posts, comments, session,
                   script, now, ret>>

\* token = current_user.generate_email_change_token(new_email); send_email(...)
SendEmailChange(u, new_email, expiration) ==
    /\ u \in DOMAIN users
    /\ mail' = {User_generate_email_change_token(u, new_email, expiration)}
    /\ UNCHANGED <<config_admin, roles, users, next_id, follows, posts, comments, session,
                   script, now, ret>>

\* user.confirm(token), then the commit
Confirm(u, token) ==
    /\ u \in DOMAIN users
    /\ token \in Presented
    /\ users' = User_confirm(u, token).users
    /\ ret' = [op |-> "confirm", value |-> User_confirm(u, token).value]
    /\ UNCHANGED <<config_admin, roles, next_id, follows, posts, comments, session,
                   script, mail, now>>

\* user.reset_password(token, new_password), then the commit
ResetPassword(u, token, new_password, salt) ==
    /\ u \in DOMAIN users
    /\ token \in Presented
    /\ users' = User_reset_password(u, token, new_password, salt).users
    /\ ret' = [op |-> "reset_password",
               value |-> User_reset_password(u, token, new_password, salt).value]
    /\ UNCHANGED <<config_admin, roles, next_id, follows, posts, comments, session,
                   script, mail, now>>

\* user.change_email(token), then the commit
ChangeEmail(u, token) ==
    /\ u \in DOMAIN users
    /\ token \in Presented
    /\ users' = User_change_email(u, token).users
    /\ ret' = [op |-> "change_email", value |-> User_change_email(u, token).value]
    /\ UNCHANGED <<config_admin, roles, next_id, follows, posts, comments, session,
                   script, mail, now>>

\* The follow graph of the deployed application under concurrent requests.
Next ==
    \/ Deploy
    \/ Construct(None)
    \/ \E u \in UserIds : Delete(u)
    \/ \E p \in Procs, a \in UserIds, b \in UserIds : CallFollow(p, a, b)
    \/ \E p \in Procs, a \in UserIds, b \in UserIds : CallUnfollow(p, a, b)
    \/ \E p \in Procs, cu \in UserIds \cup {NoId}, b \in UserIds : RouteFollow(p, cu, b)
    \/ \E p \in Procs, cu \in UserIds \cup {NoId}, b \in UserIds : RouteUnfollow(p, cu, b)
    \/ \E p \in Procs : Teardown(p)

Spec == Init /\ [][Next]_vars

\* Roles and permissions: construction and administration of users under any
\* configuration.
NextPerm ==
    \/ Deploy
    \/ \E e \in Emails \cup {None} : Construct(e)
    \/ \E u \in UserIds : Delete(u)
    \/ \E cu \in UserIds \cup {NoId}, id \in UserIds, e \in Emails, r \in RoleNames,
          c \in BOOLEAN :
            RouteEditProfileAdmin(cu, id, e, r, c)

SpecPerm == InitPerm /\ [][NextPerm]_vars

\* One session, as in the unit tests: the graph is built by committed calls
\* of the model methods, then the script runs.
NextScript ==
    \/ script.pc = "idle" /\ Deploy
    \/ script.pc = "idle" /\ Construct(None)
    \/ script.pc = "idle" /\ \E a \in UserIds, b \in UserIds : CallFollow("p1", a, b)
    \/ script.pc = "idle" /\ \E a \in UserIds, b \in UserIds : CallUnfollow("p1", a, b)
    \/ script.pc = "idle" /\ Teardown("p1")
    \/ \E a \in UserIds, b \in UserIds : test_follows_follow(a, b)
    \/ test_follows_commit_follow
    \/ test_follows_unfollow
    \/ test_follows_commit_unfollow

SpecScript == InitFresh /\ [][NextScript]_vars

\* The followed-posts feed: one worker, from a fresh database; users without
\* a role (constructed before the roles were inserted) meet the 403 of the
\* routes.
NextFeed ==
    \/ Deploy
    \/ Construct(None)
    \/ \E u \in UserIds : Delete(u)
    \/ \E a \in UserIds, b \in UserIds : CallFollow("p1", a, b)
    \/ \E a \in UserIds, b \in UserIds : CallUnfollow("p1", a, b)
    \/ \E cu \in UserIds \cup {NoId}, b \in UserIds : RouteFollow("p1", cu, b)
    \/ \E cu \in UserIds \cup {NoId}, b \in UserIds : RouteUnfollow("p1", cu, b)
    \/ \E cu \in UserIds : RouteIndex(cu)
    \/ Teardown("p1")

SpecFeed == InitFresh /\ [][NextFeed]_vars

\* Account tokens on the deployed application: users register, tokens are
\* mailed, time passes, and the mailed token or a forgery of it is presented
\* to the token methods of any user.  The tokens are made with the short
\* expiry, so that the clock can pass it; a token of the default expiry
\* behaves within MaxTime like a short one that has not expired.
NextToken ==
    \/ \E e \in Emails : Register(e, "cat", "s1")
    \/ Tick
    \/ \E u \in UserIds : SendConfirmation(u, ShortExpiration)
    \/ \E u \in UserIds : SendReset(u, ShortExpiration)
    \/ \E u \in UserIds, e \in NewEmails : SendEmailChange(u, e, ShortExpiration)
    \/ \E u \in UserIds, t \in Presented : Confirm(u, t)
    \/ \E u \in UserIds, t \in Presented : ResetPassword(u, t, "dog", "s2")
    \/ \E u \in UserIds, t \in Presented : ChangeEmail(u, t)

SpecToken == Init /\ [][NextToken]_vars

\* Tokens at the API: as above, and auth tokens are issued too; every mailed
\* or issued token, or a forgery of it, is presented to the API as the user
\* name with the empty password.
NextAuth ==
    \/ \E e \in Emails : Register(e, "cat", "s1")
    \/ Tick
    \/ \E u \in UserIds : SendConfirmation(u, ShortExpiration)
    \/ \E u \in UserIds : SendReset(u, ShortExpiration)
    \/ \E u \in UserIds, e \in NewEmails : SendEmailChange(u, e, ShortExpiration)
    \/ \E u \in UserIds, t \in Presented : Confirm(u, t)
    \/ \E u \in UserIds : IssueAuthToken(u, ShortExpiration)
    \/ \E t \in Presented : ApiTokenRequest(t)

SpecAuth == Init /\ [][NextAuth]_vars

\* Email addresses on the deployed application, FLASKY_ADMIN set: users
\* register, ask for email changes and present the mailed token or a forgery
\* of it, and administrators change the address in a profile (the other
\* fields keep the values the form is filled with).
InitEmail ==
    /\ config_admin \in Emails
    /\ roles = RolesDict
    /\ InitTables

NextEmail ==
    \/ \E e \in Emails : Register(e, "cat", "s1")
    \/ \E u \in UserIds, e \in NewEmails : SendEmailChange(u, e, DefaultExpiration)
    \/ \E u \in UserIds, t \in Presented : ChangeEmail(u, t)
    \/ \E cu \in UserIds \cup {NoId}, id \in DOMAIN users, e \in NewEmails :
            RouteEditProfileAdmin(cu, id, e, users[id].role, users[id].confirmed)

SpecEmail == InitEmail /\ [][NextEmail]_vars

\* Role provisioning on an upgrade: the roles table was left by an earlier
\* version of the roles dictionary (insert_roles is documented as the way to
\* bring the rows up to date after the dictionary changes), so it holds any
\* of the named roles, each with one of the masks and either default flag.
RoleTables ==
    UNION {[S -> [permissions : {RolesDict[r].permissions : r \in RoleNames},
                  default : BOOLEAN]] : S \in SUBSET RoleNames}

InitRoles ==
    /\ config_admin = None
    /\ roles \in RoleTables
    /\ InitTables

NextRoles ==
    \/ Deploy
    \/ Construct(None)

SpecRoles == InitRoles /\ [][NextRoles]_vars

\* the address user u registered with
EmailOf(u) ==
    CASE u = 1 -> "john@example.com"
      [] u = 2 -> "susan@example.org"
      [] OTHER -> "david@example.net"

\* the row of a registered user
Account(u, role, confirmed) ==
    [email |-> EmailOf(u), role |-> role, confirmed |-> confirmed,
     password_hash |-> generate_password_hash("cat", "s1")]

\* A running blog: the roles are inserted, FLASKY_ADMIN is the first user's
\* address, and every user has registered; confirmation and the
\* administrator's profile editor have given user u a role and a confirmed
\* flag among Kinds[u] (the role None is that of a user who registered before
\* the roles were inserted).  Each user follows itself, and nothing is posted
\* yet.
InitBlog(Kinds) ==
    /\ config_admin = EmailOf(1)
    /\ roles = RolesDict
    /\ \E k \in [UserIds -> (RoleNames \cup {None}) \X BOOLEAN] :
          /\ \A u \in UserIds : k[u] \in Kinds[u]
          /\ users = [u \in UserIds |-> Account(u, k[u][1], k[u][2])]
    /\ next_id = MaxUsers + 1
    /\ follows = [e \in Pairs |-> IF e[1] = e[2] THEN 1 ELSE 0]
    /\ posts = [q \in {} |-> 0]
    /\ comments = [c \in {} |-> 0]
    /\ session = [p \in Procs |-> <<>>]
    /\ script = ScriptIdle
    /\ mail = {}
    /\ now = 0
    /\ ret = RetNone

\* Rendered markup: confirmed users of the default role write, edit and
\* comment through the web routes and the API.
InitMarkup == InitBlog([u \in UserIds |-> {<<"User", TRUE>>}])

NextMarkup ==
    \/ \E cu \in UserIds \cup {NoId}, b \in Bodies \cup {None} : WebIndex(cu, b)
    \/ \E cu \in UserIds \cup {NoId}, q \in PostIds, b \in Bodies \cup {None} :
          WebEdit(cu, q, b)
    \/ \E cu \in UserIds \cup {NoId}, q \in PostIds, b \in Bodies \cup {None} :
          WebPost(cu, q, b)
    \/ \E cu \in UserIds \cup {NoId}, b \in Bodies \cup {None} : ApiNewPost(cu, b)
    \/ \E cu \in UserIds \cup {NoId}, q \in PostIds, b \in Bodies \cup {None} :
          ApiEditPost(cu, q, b)

SpecMarkup == InitMarkup /\ [][NextMarkup]_vars

\* Moderation: users and moderators, confirmed or not, write posts and
\* comments and ask for the moderation routes.
InitModerate ==
    InitBlog([u \in UserIds |->
                {<<"User", TRUE>>, <<"Moderator", TRUE>>, <<"Moderator", FALSE>>}])

NextModerate ==
    \/ \E cu \in UserIds \cup {NoId} : WebIndex(cu, "hello")
    \/ \E cu \in UserIds \cup {NoId}, q \in PostIds : WebPost(cu, q, "hello")
    \/ \E cu \in UserIds \cup {NoId}, c \in CommentIds : WebModerateEnable(cu, c)
    \/ \E cu \in UserIds \cup {NoId}, c \in CommentIds : WebModerateDisable(cu, c)

SpecModerate == InitModerate /\ [][NextModerate]_vars

\* Permission failures: the first user has any role, the others have none
\* or are not confirmed; all of them, and the anonymous principal, ask for
\* the guarded routes.  The edits of a post and of a profile write the
\* values the row already has.
InitGuard ==
    InitBlog([u \in UserIds |->
                IF u = 1
                THEN {<<None, TRUE>>, <<"User", TRUE>>, <<"Moderator", TRUE>>,
                      <<"Administrator", TRUE>>, <<"User", FALSE>>}
                ELSE IF u = 2 THEN {<<None, TRUE>>, <<"User", FALSE>>}
                ELSE {<<None, TRUE>>}])

NextGuard ==
    \/ \E cu \in UserIds \cup {NoId}, b \in {"hello", None} : WebIndex(cu, b)
    \/ \E cu \in UserIds \cup {NoId}, q \in PostIds : WebEdit(cu, q, "hello")
    \/ \E cu \in UserIds \cup {NoId}, b \in UserIds : WebFollow("p1", cu, b)
    \/ \E cu \in UserIds \cup {NoId}, b \in UserIds : WebUnfollow("p1", cu, b)
    \/ Teardown("p1")
    \/ \E cu \in UserIds \cup {NoId}, c \in CommentIds : WebModerateEnable(cu, c)
    \/ \E cu \in UserIds \cup {NoId}, c \in CommentIds : WebModerateDisable(cu, c)
    \/ \E cu \in UserIds \cup {NoId}, id \in DOMAIN users :
          WebEditProfileAdmin(cu, id, users[id].email, users[id].role,
                              users[id].confirmed)

SpecGuard == InitGuard /\ [][NextGuard]_vars

\* Authors: confirmed users write posts through the index page and the API
\* and comment on them, and users are deleted.
NextAuthors ==
    \/ \E cu \in UserIds \cup {NoId}, b \in {"hello", "# title"} : WebIndex(cu, b)
    \/ \E cu \in UserIds \cup {NoId} : ApiNewPost(cu, "hello")
    \/ \E cu \in UserIds \cup {NoId}, q \in PostIds : WebPost(cu, q, "hello")
    \/ \E u \in UserIds : Delete(u)

SpecAuthors == InitMarkup /\ [][NextAuthors]_vars

\* Editing: users and administrators, and users who are not confirmed, write
\* posts and ask to edit them through the web route and the API.
InitEdit ==
    InitBlog([u \in UserIds |->
                {<<"User", TRUE>>, <<"Administrator", TRUE>>, <<"User", FALSE>>}])

NextEdit ==
    \/ \E cu \in UserIds \cup {NoId} : WebIndex(cu, "hello")
    \/ \E cu \in UserIds \cup {NoId}, q \in PostIds, b \in {"# title", None} :
          WebEdit(cu, q, b)
    \/ \E cu \in UserIds \cup {NoId}, q \in PostIds, b \in {"# title", None} :
          ApiEditPost(cu, q, b)

SpecEdit == InitEdit /\ [][NextEdit]_vars

\* Unconfirmed accounts: administrators, moderators and users whose account
\* is not confirmed, beside an administrator who may be confirmed, ask for
\* every route that writes.
InitGate ==
    InitBlog([u \in UserIds |->
                IF u = 1
                THEN {<<"Administrator", TRUE>>, <<"Administrator", FALSE>>}
                ELSE IF u = 2
                THEN {<<"Administrator", FALSE>>, <<"Moderator", FALSE>>,
                      <<"User", FALSE>>}
                ELSE {<<"Administrator", FALSE>>}])

NextGate ==
    \/ \E cu \in UserIds \cup {NoId} : WebIndex(cu, "hello")
    \/ \E cu \in UserIds \cup {NoId}, q \in PostIds : WebEdit(cu, q, "hello")
    \/ \E cu \in UserIds \cup {NoId}, q \in PostIds : WebPost(cu, q, "hello")
    \/ \E cu \in UserIds \cup {NoId}, b \in UserIds : WebFollow("p1", cu, b)
    \/ \E cu \in UserIds \cup {NoId}, b \in UserIds : WebUnfollow("p1", cu, b)
    \/ Teardown("p1")
    \/ \E cu \in UserIds \cup {NoId}, c \in CommentIds : WebModerateEnable(cu, c)
    \/ \E cu \in UserIds \cup {NoId}, c \in CommentIds : WebModerateDisable(cu, c)
    \/ \E cu \in UserIds \cup {NoId} : ApiNewPost(cu, "hello")
    \/ \E cu \in UserIds \cup {NoId}, q \in PostIds : ApiEditPost(cu, q, "hello")

SpecGate == InitGate /\ [][NextGate]_vars

\* Self-follows: the graph is built by committed calls of the model
\* methods, and the deployment command adds the self-follows.
NextSelf ==
    \/ Construct(None)
    \/ \E u \in UserIds : Delete(u)
    \/ \E a \in UserIds, b \in UserIds : CallFollow("p1", a, b)
    \/ \E a \in UserIds, b \in UserIds : CallUnfollow("p1", a, b)
    \/ Teardown("p1")
    \/ AddSelfFollows

SpecSelf == Init /\ [][NextSelf]_vars

\* Passwords: users register with any password and salt, change their
\* password, and the password attribute is read.
NextPassword ==
    \/ \E e \in Emails, p \in Passwords, s \in Salts : Register(e, p, s)
    \/ \E cu \in UserIds \cup {NoId}, old \in Passwords, p \in Passwords, s \in Salts :
          ChangePassword(cu, old, p, s)
    \/ \E u \in UserIds : ReadPassword(u)

SpecPassword == Init /\ [][NextPassword]_vars

\* ================================================================ claims

\* C1: for every user u and every mask m, u.can(m) is true iff u has a role
\* and every bit of m is set in the role's permissions (inclusion, not
\* equality); an anonymous principal can do nothing and is no administrator.
C1_PermissionEvaluation ==
    /\ \A u \in DOMAIN users, m \in Masks :
          can(u, m) <=>
              /\ users[u].role # None
              /\ \A i \in 0..(PermissionBits - 1) :
                    Bit(m, i) => Bit(roles[users[u].role].permissions, i)
    /\ \A m \in Masks : ~can(NoId, m)
    /\ ~is_administrator(NoId)

\* a user of the default role: may write articles (one bit of 0x07), may not
\* moderate; and a user without a role
C1_Witness ==
    /\ \E u \in DOMAIN users :
          /\ users[u].role = "User"
          /\ can(u, WRITE_ARTICLES)
          /\ ~can(u, MODERATE_COMMENTS)
    /\ \E u \in DOMAIN users : users[u].role = None /\ ~can(u, FOLLOW)

\* C2: follow(a, b) stages the new edge (a,b) iff the table holds no such
\* edge, and stages nothing when it does.
C2_FollowIdempotent ==
    [][\A p \in Procs, a \in UserIds, b \in UserIds :
          FollowMethod(p, a, b) =>
              session'[p] = IF follows[<<a, b>>] > 0
                            THEN session[p]
                            ELSE Append(session[p], Staged("insert", a, b))]_vars

\* C3: a.is_following(b) is true iff the edge (a,b) exists, and
\* a.is_followed_by(b) is true iff the edge (b,a) exists.
C3_ExistenceChecks ==
    \A a \in DOMAIN users, b \in DOMAIN users :
        /\ User_is_following(a, b) <=> follows[<<a, b>>] > 0
        /\ User_is_followed_by(a, b) <=> follows[<<b, a>>] > 0

\* C4: every user has the self-edge (u,u) in every reachable state.
C4_SelfEdgePermanent ==
    \A u \in DOMAIN users : follows[<<u, u>>] > 0

\* C5: unfollow(a, b) stages the deletion of the edge (a,b) exactly when the
\* edge is present, and its commit removes that edge and changes no other.
C5_UnfollowFrame ==
    [][\A p \in Procs, a \in UserIds, b \in UserIds :
          /\ UnfollowMethod(p, a, b) =>
                /\ follows' = follows
                /\ session'[p] = IF follows[<<a, b>>] > 0
                                  THEN <<Staged("delete", a, b)>>
                                  ELSE <<>>
          /\ (session[p] = <<Staged("delete", a, b)>> /\ Commit(p)) =>
                follows' = [e \in Pairs |-> IF e = <<a, b>> THEN 0 ELSE follows[e]]]_vars

\* a.unfollow(b) has staged the deletion of an existing edge between two
\* different users while other edges exist
C5_Witness ==
    \E p \in Procs, a \in DOMAIN users, b \in DOMAIN users :
        /\ a # b
        /\ session[p] = <<Staged("delete", a, b)>>
        /\ follows[<<a, b>>] = 1
        /\ follows[<<b, a>>] = 1

\* C6 as claimed: for a # b, follow(a,b) then unfollow(a,b) leaves the follows
\* table as it was before the follow.
C6_RoundTrip ==
    (script.pc = "done" /\ script.a # script.b) => follows = script.before

\* C6 amended: for a # b with no edge (a,b) before, follow(a,b) then
\* unfollow(a,b) leaves the follows table as it was before the follow.
C6_RoundTripFresh ==
    (/\ script.pc = "done"
     /\ script.a # script.b
     /\ script.before[<<script.a, script.b>>] = 0) => follows = script.before

C6_Witness ==
    /\ script.pc = "done"
    /\ script.a # script.b
    /\ script.before[<<script.a, script.b>>] = 0
    /\ script.before[<<script.b, script.a>>] = 1

\* C7: the follows table holds at most one row per ordered pair
\* (follower_id, followed_id).
C7_AtMostOneEdge ==
    \A e \in Pairs : follows[e] <= 1

\* two concurrent requests have both staged the edge (a,b); one has
\* committed it, the other is about to commit
C7_Witness ==
    \E a \in DOMAIN users, b \in DOMAIN users :
        /\ a # b
        /\ follows[<<a, b>>] = 1
        /\ session["p1"] = <<>>
        /\ session["p2"] = <<Staged("insert", a, b)>>

\* no follows row refers to a user that does not exist
NoOrphanEdges ==
    \A e \in Pairs : follows[e] > 0 => (e[1] \in DOMAIN users /\ e[2] \in DOMAIN users)

C9_FollowedPosts ==
    \A a \in DOMAIN users :
        /\ User_followed_posts(a) =
              {q \in DOMAIN posts :
                  /\ posts[q].author_id # NoId
                  /\ follows[<<a, posts[q].author_id>>] > 0}
        /\ {q \in DOMAIN posts : posts[q].author_id = a} \subseteq User_followed_posts(a)

\* C10: a user constructed without a role gets the role of mask 0xFF iff its
\* email is the configured administrator address, the default role otherwise.
C10_InitialRole ==
    [][\A u \in (DOMAIN users') \ (DOMAIN users) :
          users'[u].role =
              IF config_admin # None /\ users'[u].email = config_admin
              THEN RoleWithPermissions(AdminMask)
              ELSE DefaultRole]_vars

\* C11: every user has a role (role is not None) once constructed.
C11_NonNullRole ==
    \A u \in DOMAIN users : users[u].role # None

\* C12 as claimed: in every reachable state of the roles table exactly one
\* role has default = true.
C12_ExactlyOneDefault == DefaultCount = 1

\* C12 amended: after a run of insert_roles exactly one role has
\* default = true, and from then on that stays so.
C12_ExactlyOneDefaultProvisioned ==
    [][(Deploy \/ DefaultCount = 1) => DefaultCount' = 1]_vars

\* the roles are provisioned and an administrator has given a user the
\* Moderator role by a profile edit
C12_Witness ==
    /\ DefaultCount = 1
    /\ RoleNames \subseteq DOMAIN roles
    /\ \E u \in DOMAIN users : users[u].role = "Moderator"

\* C13: insert_roles sets mask and default flag of the named roles in place
\* (0x07 and default for User, 0x0f for Moderator, 0xff for Administrator),
\* creates only the missing rows, and a second run changes nothing.
C13_InsertRolesIdempotent ==
    /\ [](LET once == insert_roles_table(roles)
          IN /\ insert_roles_table(once) = once
             /\ DOMAIN once = (DOMAIN roles) \cup RoleNames
             /\ RoleNames \subseteq DOMAIN roles =>
                    Cardinality(DOMAIN once) = Cardinality(DOMAIN roles)
             /\ once["User"] = [permissions |-> 7, default |-> TRUE]
             /\ once["Moderator"] = [permissions |-> 15, default |-> FALSE]
             /\ once["Administrator"] = [permissions |-> 255, default |-> FALSE])
    /\ [][Deploy => roles' = insert_roles_table(roles)]_vars

\* insert_roles has run on a table whose Moderator row was out of date: a
\* user got the Moderator role at construction (the row was then the default
\* role or had the mask 0xff), and the row now has the dictionary's values
C13_Witness ==
    /\ \E u \in DOMAIN users : users[u].role = "Moderator"
    /\ insert_roles_table(roles) = roles
    /\ Cardinality(DOMAIN roles) = 3

\* C14: a user that can ADMINISTER can do everything: can(u, ADMINISTER)
\* implies can(u, m) for each defined permission m.
C14_AdministerImpliesAll ==
    \A u \in DOMAIN users :
        can(u, ADMINISTER) =>
            \A m \in {FOLLOW, COMMENT, WRITE_ARTICLES, MODERATE_COMMENTS, ADMINISTER} :
                can(u, m)

\* an administrator and a user of another role exist
C14_Witness ==
    /\ \E u \in DOMAIN users : can(u, ADMINISTER) /\ users[u].role = "Administrator"
    /\ \E u \in DOMAIN users : users[u].role # None /\ ~can(u, ADMINISTER)

\* the user a payload was signed for
Subject(data) ==
    IF "confirm" \in DOMAIN data THEN data["confirm"]
    ELSE IF "rest" \in DOMAIN data THEN data["rest"]
    ELSE data["change_email"]

\* confirmed flag, email and password hash of every user of the table tbl
Accounts(tbl) ==
    [v \in DOMAIN tbl |-> <<tbl[v].confirmed, tbl[v].email, tbl[v].password_hash>>]

\* C15: confirm, reset_password and change_email return False (and raise
\* nothing) for a token that is expired (exp < now), tampered with (the
\* signature does not match) or signed for another user.
C15_TokensFailClosed ==
    \A u \in DOMAIN users, t \in Presented :
        (t.exp < now \/ t \in Forged \/ Subject(t.data) # u) =>
            /\ User_confirm(u, t).value = "False"
            /\ \A pw \in Passwords, salt \in Salts :
                  User_reset_password(u, t, pw, salt).value = "False"
            /\ User_change_email(u, t).value = "False"

\* the confirmation token mailed to an unconfirmed user has expired and a
\* call of confirm has returned False
C15_Witness ==
    /\ ret = [op |-> "confirm", value |-> "False"]
    /\ \E t \in mail, u \in DOMAIN users :
          /\ t.data = [confirm |-> u]
          /\ t.exp < now
          /\ ~users[u].confirmed

C17_ConfirmValid ==
    \A u \in DOMAIN users :
        /\ \A x \in Expirations :
              LET r == User_confirm(u, User_generate_confirmation_token(u, x))
              IN r.value = "True" /\ r.users[u].confirmed
        /\ \A t \in mail :
              (t.data = [confirm |-> u] /\ t.exp >= now) =>
                  (User_confirm(u, t).value = "True" /\ User_confirm(u, t).users[u].confirmed)

\* the mailed confirmation token of u has been accepted a second after it
\* was made
C17_Witness ==
    /\ ret = [op |-> "confirm", value |-> "True"]
    /\ \E t \in mail, u \in DOMAIN users :
          /\ t.data = [confirm |-> u]
          /\ t.exp = now
          /\ users[u].confirmed

\* C18: a reset token generated by a persisted user u, presented unexpired to
\* u.reset_password with a new password p, returns True, and afterwards
\* u.verify_password(p) is true.
C18_ResetValid ==
    \A u \in DOMAIN users, x \in Expirations, p \in Passwords, salt \in Salts :
        LET r == User_reset_password(u, User_generate_reset_token(u, x), p, salt)
        IN /\ r.value = "True"
           /\ check_password_hash(r.users[u].password_hash, p)

\* C19: an email-change token generated by a persisted user u for an address
\* e that no user holds, presented to u.change_email while unexpired, returns
\* True and sets u.email to e.
C19_ChangeEmailValid ==
    \A u \in DOMAIN users :
        /\ \A x \in Expirations, e \in NewEmails :
              (\A v \in DOMAIN users : users[v].email # e) =>
                  LET r == User_change_email(u, User_generate_email_change_token(u, e, x))
                  IN r.value = "True" /\ r.users[u].email = e
        /\ \A t \in mail :
              (/\ DOMAIN t.data = {"change_email", "new_email"}
               /\ t.data["change_email"] = u
               /\ t.exp >= now
               /\ \A v \in DOMAIN users : users[v].email # t.data["new_email"]) =>
                  /\ User_change_email(u, t).value = "True"
                  /\ User_change_email(u, t).users[u].email = t.data["new_email"]

\* a user has changed its address to the one its mailed token names
C19_Witness ==
    /\ ret = [op |-> "change_email", value |-> "True"]
    /\ \E t \in mail, u \in DOMAIN users :
          /\ DOMAIN t.data = {"change_email", "new_email"}
          /\ t.data["change_email"] = u
          /\ t.data["new_email"] = "david@example.net"
          /\ users[u].email = "david@example.net"

\* no two users hold the same email address
EmailsUnique ==
    \A u \in DOMAIN users, v \in DOMAIN users :
        (u # v /\ users[u].email # None) => users[u].email # users[v].email

\* C20: change_email with a token whose new address some user holds at the
\* time of the call returns False and leaves the caller's email as it is, and
\* in every reachable state no two users share an email.
C20_EmailsStayUnique ==
    /\ EmailsUnique
    /\ \A u \in DOMAIN users, t \in Presented :
          (\E v \in DOMAIN users : users[v].email = dict_get_new_email(t.data)) =>
              /\ User_change_email(u, t).value = "False"
              /\ User_change_email(u, t).users[u].email = users[u].email

\* u's valid token names an address that another user has come to hold, and
\* change_email has returned False
C20_Witness ==
    /\ ret = [op |-> "change_email", value |-> "False"]
    /\ \E t \in mail, u \in DOMAIN users, v \in DOMAIN users :
          /\ u # v
          /\ DOMAIN t.data = {"change_email", "new_email"}
          /\ t.data["change_email"] = u
          /\ t.data["new_email"] = "david@example.net"
          /\ users[v].email = "david@example.net"

\* what check_password_hash answers for user u of a users table
VerifyIn(table, u, x) == check_password_hash(table[u].password_hash, x)

\* C21: the password is write-only and stored as a salted hash: reading it
\* gives AttributeError, the stored value is a hash made with a salt, and
\* after a password is assigned (at registration or by a password change)
\* verify_password(x) is true exactly of the password assigned last; no other
\* step changes the stored hash.
C21_PasswordWriteOnly ==
    [][/\ \A e \in Emails, p \in Passwords, s \in Salts :
            Register(e, p, s) =>
                \A x \in Passwords : VerifyIn(users', next_id, x) <=> x = p
       /\ \A u \in DOMAIN users, old \in Passwords, p \in Passwords, s \in Salts :
            (ChangePassword(u, old, p, s) /\ VerifyIn(users, u, old)) =>
                \A x \in Passwords : VerifyIn(users', u, x) <=> x = p
       /\ \A u \in (DOMAIN users) \cap (DOMAIN users') :
            users'[u].password_hash # users[u].password_hash =>
                \E old \in Passwords, p \in Passwords, s \in Salts :
                    VerifyIn(users, u, old) /\ ChangePassword(u, old, p, s)
       /\ \A u \in DOMAIN users' : users'[u].password_hash.salt \in Salts
       /\ \A u \in DOMAIN users : ReadPassword(u) => ret'.value = "AttributeError"]_vars

\* a user who registered with "cat" has changed the password to "dog": "dog"
\* verifies and "cat" no longer does
C21_Witness ==
    /\ ret = [op |-> "change_password", value |-> "302"]
    /\ \E u \in DOMAIN users :
          /\ User_verify_password(u, "dog")
          /\ ~User_verify_password(u, "cat")

\* C22: in every reachable state the body_html of every post and of every
\* comment is the sanitized render of its current body: the markup of the
\* body with the tags outside the allow-list of its kind removed and the
\* addresses made anchors.
C22_RenderFollowsBody ==
    /\ \A q \in DOMAIN posts :
          /\ posts[q].body_html = Post_on_changed_body(posts[q].body)
          /\ \A i \in DOMAIN posts[q].body_html :
                "tag" \in DOMAIN posts[q].body_html[i] =>
                    posts[q].body_html[i].tag \in Post_allowed_tags
    /\ \A c \in DOMAIN comments :
          /\ comments[c].body_html = Comment_on_changed_body(comments[c].body)
          /\ \A i \in DOMAIN comments[c].body_html :
                "tag" \in DOMAIN comments[c].body_html[i] =>
                    comments[c].body_html[i].tag \in Comment_allowed_tags

\* a post written as "hello" has been edited into the text with bold
\* markup, a script element and an address: its render has the strong
\* element and an anchor and no script element
C22_Witness ==
    /\ ret \in {[op |-> "edit", value |-> "302"], [op |-> "edit_post", value |-> "200"]}
    /\ \E q \in DOMAIN posts :
          /\ posts[q].body = "**bold** <script>alert(1)</script> http://x.com"
          /\ \E i \in DOMAIN posts[q].body_html : posts[q].body_html[i] = Open("strong")
          /\ \E i \in DOMAIN posts[q].body_html : posts[q].body_html[i] = Open("a")
          /\ \A i \in DOMAIN posts[q].body_html : posts[q].body_html[i] # Open("script")

\* C23: the disabled flag of a comment changes only in a moderation request
\* of a logged-in user whose role includes MODERATE_COMMENTS, and a
\* moderation request of any other principal leaves the comments as they
\* are.
C23_OnlyModeratorsDisable ==
    [][/\ \A c \in (DOMAIN comments) \cap (DOMAIN comments') :
            comments'[c].disabled # comments[c].disabled =>
                \E cu \in DOMAIN users :
                    /\ can(cu, MODERATE_COMMENTS)
                    /\ WebModerateDisable(cu, c) \/ WebModerateEnable(cu, c)
       /\ \A cu \in UserIds \cup {NoId}, c \in CommentIds :
            (/\ ~can(cu, MODERATE_COMMENTS)
             /\ WebModerateDisable(cu, c) \/ WebModerateEnable(cu, c)) =>
                UNCHANGED comments]_vars

\* a moderator has disabled a comment
C23_Witness ==
    /\ ret = [op |-> "moderate_disable", value |-> "302"]
    /\ \E c \in DOMAIN comments : comments[c].disabled = "True"

\* C26: after a moderator's moderate_enable(id) on an existing comment the
\* comment is not disabled, so that a comment disabled by moderate_disable is
\* enabled again by a later moderate_enable.
C26_EnableClearsDisabled ==
    [][\A cu \in UserIds, c \in CommentIds :
          (WebModerateEnable(cu, c) /\ ret'.value = "302") =>
              comments'[c].disabled # "True"]_vars

\* the tables and the sessions: everything a request can write
Tables == <<config_admin, roles, users, next_id, follows, posts, comments, session>>

\* a request of principal cu for a guarded operation other than the index
\* page, made without the permission the operation requires
GuardedAttempt(cu) ==
    \/ /\ ret'.op \in {"follow", "unfollow"}
       /\ ~can(cu, FOLLOW)
       /\ \E b \in UserIds : WebFollow("p1", cu, b) \/ WebUnfollow("p1", cu, b)
    \/ /\ ret'.op \in {"moderate_enable", "moderate_disable"}
       /\ ~can(cu, MODERATE_COMMENTS)
       /\ \E c \in CommentIds : WebModerateEnable(cu, c) \/ WebModerateDisable(cu, c)
    \/ /\ ret'.op = "edit_profile_admin"
       /\ ~can(cu, ADMINISTER)
       /\ \E id \in DOMAIN users :
             WebEditProfileAdmin(cu, id, users[id].email, users[id].role,
                                 users[id].confirmed)
    \/ /\ ret'.op = "edit"
       /\ ~can(cu, ADMINISTER)
       /\ \E q \in DOMAIN posts : cu # posts[q].author_id /\ WebEdit(cu, q, "hello")

\* a post submitted on the index page without WRITE_ARTICLES
IndexAttempt(cu) ==
    /\ ret'.op = "index"
    /\ ~can(cu, WRITE_ARTICLES)
    /\ WebIndex(cu, "hello")

C25_AuthorsExist ==
    /\ \A q \in DOMAIN posts : posts[q].author_id \in DOMAIN users
    /\ \A c \in DOMAIN comments : comments[c].author_id \in DOMAIN users

\* the body of post q changes only in an edit request, by the web route or
\* the PUT of the API, of its author or of a user with ADMINISTER
OnlyAuthorOrAdminEdits ==
    \A q \in (DOMAIN posts) \cap (DOMAIN posts') :
        posts'[q].body # posts[q].body =>
            \E cu \in DOMAIN users, b \in Bodies :
                /\ cu = posts[q].author_id \/ can(cu, ADMINISTER)
                /\ WebEdit(cu, q, b) \/ ApiEditPost(cu, q, b)

\* C27 as stated: a post's body changes only in a request of its author or
\* of an administrator, and the attempt of any other user, through the web
\* route or the API, is answered with 403 and leaves the posts unchanged.
C27_OthersGet403 ==
    [][/\ OnlyAuthorOrAdminEdits
       /\ ret'.op \in {"edit", "edit_post"} =>
            \A cu \in DOMAIN users, q \in DOMAIN posts, b \in Bodies \cup {None} :
                (/\ cu # posts[q].author_id
                 /\ ~can(cu, ADMINISTER)
                 /\ \/ ret'.op = "edit" /\ WebEdit(cu, q, b)
                    \/ ret'.op = "edit_post" /\ ApiEditPost(cu, q, b)) =>
                    (ret'.value = "403" /\ UNCHANGED posts)]_vars

\* C27, amended: a post's body changes only in a request of its author or of
\* an administrator; the attempt of any other user leaves the posts
\* unchanged and is answered with 403, except that the web request of a user
\* who is not confirmed is redirected to the unconfirmed page.
C27_OnlyAuthorOrAdmin ==
    [][/\ OnlyAuthorOrAdminEdits
       /\ ret'.op \in {"edit", "edit_post"} =>
            \A cu \in DOMAIN users, q \in DOMAIN posts, b \in Bodies \cup {None} :
                (/\ cu # posts[q].author_id
                 /\ ~can(cu, ADMINISTER)
                 /\ \/ ret'.op = "edit" /\ WebEdit(cu, q, b)
                    \/ ret'.op = "edit_post" /\ ApiEditPost(cu, q, b)) =>
                    /\ UNCHANGED posts
                    /\ ret'.value = IF ret'.op = "edit" /\ ~users[cu].confirmed
                                    THEN "unconfirmed" ELSE "403"]_vars

\* all users are confirmed and may write, and the PUT of one of them on
\* another user's post has been answered with 403
C27_Witness ==
    /\ ret = [op |-> "edit_post", value |-> "403"]
    /\ \A u \in DOMAIN users : users[u].confirmed
    /\ \E q \in DOMAIN posts : posts[q].body = "hello"

\* a web request of user cu for an endpoint outside the auth blueprint
WebRequest(cu) ==
    \/ ret'.op = "index" /\ WebIndex(cu, "hello")
    \/ ret'.op = "edit" /\ \E q \in PostIds : WebEdit(cu, q, "hello")
    \/ ret'.op = "post" /\ \E q \in PostIds : WebPost(cu, q, "hello")
    \/ ret'.op = "follow" /\ \E b \in UserIds : WebFollow("p1", cu, b)
    \/ ret'.op = "unfollow" /\ \E b \in UserIds : WebUnfollow("p1", cu, b)
    \/ ret'.op = "moderate_enable" /\ \E c \in CommentIds : WebModerateEnable(cu, c)
    \/ ret'.op = "moderate_disable" /\ \E c \in CommentIds : WebModerateDisable(cu, c)

\* a request of the API that has authenticated user cu
ApiRequest(cu) ==
    \/ ret'.op = "new_post" /\ ApiNewPost(cu, "hello")
    \/ ret'.op = "edit_post" /\ \E q \in PostIds : ApiEditPost(cu, q, "hello")

\* C28: a web request of a logged-in user whose account is not confirmed,
\* for an endpoint outside the auth blueprint, is answered with the redirect
\* to the unconfirmed page, and a request of the API with 403; neither writes
\* a post, a comment, a follow edge or a moderation flag.
C28_UnconfirmedStopped ==
    [][\A cu \in DOMAIN users :
          ~users[cu].confirmed =>
              /\ WebRequest(cu) => (ret'.value = "unconfirmed" /\ UNCHANGED Tables)
              /\ ApiRequest(cu) => (ret'.value = "403" /\ UNCHANGED Tables)]_vars

\* an unconfirmed user, an administrator by role, has asked to comment on an
\* existing post and has been redirected
C28_Witness ==
    /\ ret = [op |-> "post", value |-> "unconfirmed"]
    /\ DOMAIN posts # {}
    /\ \E u \in DOMAIN users : ~users[u].confirmed /\ can(u, ADMINISTER)

\* C29: after add_self_follows every existing user has the self-edge (u,u),
\* whatever edges the user had before, and the edges of a user that already
\* had one are left as they were.
C29_SelfFollowsAdded ==
    [][AddSelfFollows =>
          /\ \A u \in DOMAIN users : follows'[<<u, u>>] = 1
          /\ \A e \in Pairs : e[1] # e[2] => follows'[e] = follows[e]]_vars

\* C30: verify_auth_token returns None and raises nothing for every token
\* that is not an unexpired token issued by generate_auth_token (validly
\* signed confirmation, password-reset and email-change tokens included), and
\* an API request that presents such a token is answered with 401.
C30_AuthTokensPurposeBound ==
    \A t \in Presented :
        ~(t \in mail /\ DOMAIN t.data = {"id"} /\ t.exp >= now) =>
            /\ User_verify_auth_token(t) = [exc |-> None, user |-> NoId]
            /\ api_verify_password(t) = "401"

====
